---- MODULE Spec2Model ----
(***************************************************************************)
(* Pattern Recall: the path generator (generatePath and its helpers) and   *)
(* the game flow (startGame, showPattern, startRecall, handleTileClick,    *)
(* winGame, loseGame, resetGame, handleResize) of src/unnamed/part_000.    *)
(*                                                                         *)
(* Spec       generatePath as a function of (GRID_WIDTH, GRID_HEIGHT,      *)
(*            PATH_LENGTH), one action per loop iteration or return.       *)
(* SnakeSpec  generateSnakePath alone, from its entry, on a range of grids *)
(*            that includes the game's 12x8 and 8x12 with length 36.       *)
(* GameSpec   the page after init(): the event handlers, with generatePath *)
(*            running inside startGame.                                    *)
(* DetSpec    two runs of generatePath on the same inputs, stepping in     *)
(*            turn on their own draws, followed while the draws agree.     *)
(* AbandonSpec  Spec with the dead ends of the running attempt kept.       *)
(* VariantSpec  one call of attemptPathGeneration of src/game.js.          *)
(***************************************************************************)
EXTENDS Integers, Sequences, FiniteSets, TLC

VARIABLES
    GRID_WIDTH,      \* let GRID_WIDTH
    GRID_HEIGHT,     \* let GRID_HEIGHT
    PATH_LENGTH,     \* const PATH_LENGTH (the generator's `length` input)
    pc,              \* where control is: "idle", "generatePath", "attempt", "check", "snake", "returned"
    attempts,        \* generatePath: let attempts
    path,            \* attemptPathGeneration / generateSnakePath: const path = []
    visited,         \* attemptPathGeneration: const visited = new Set()
    backtrackCount,  \* attemptPathGeneration: let backtrackCount
    x,               \* generateSnakePath: let x
    y,               \* generateSnakePath: let y
    direction,       \* generateSnakePath: let direction
    attemptResult,   \* generatePath: const path = attemptPathGeneration()
    result,          \* the value generatePath returned
    log,             \* console.log lines written
    nullReturns,     \* history: attempts of this call that returned null
    iterations,      \* history: main-loop iterations of attemptPathGeneration in this call
    gameState,       \* let gameState
    mobile,          \* window.matchMedia('(max-width: 600px)').matches
    tilesDisabled,   \* the tiles carry class 'disabled' (set on all tiles at once)
    patternShown,    \* the pattern's tiles carry class 'green'
    startBtnDisabled,   \* startBtn.disabled
    peekBtnDisabled,    \* peekBtn.disabled
    recallBtnDisabled,  \* recallBtn.disabled
    timers,          \* pending setTimeout callbacks, counted by callback
    intervals,       \* ids of the active setInterval timers
    called,          \* history: what the last handler called (winGame, loseGame) or "none"
    role,            \* which run of generatePath the generator variables hold: "only", or one of two runs
    tape,            \* the Math.random() outputs the last step of this run consumed
    other,           \* the generator variables of the other run, when two runs are compared
    abandoned        \* history: the paths this attempt has backtracked from (its dead ends), when kept

genVars == <<GRID_WIDTH, GRID_HEIGHT, PATH_LENGTH, pc, attempts, path, visited,
             backtrackCount, x, y, direction, attemptResult, result, log,
             nullReturns, iterations>>

gameVars == <<gameState, mobile, tilesDisabled, patternShown, startBtnDisabled,
              peekBtnDisabled, recallBtnDisabled, timers, intervals, called>>

detVars == <<role, tape, other>>

histVars == <<abandoned>>

vars == <<genVars, gameVars, detVars, histVars>>

(***************************************************************************)
(* Bounds of the model.                                                    *)
(***************************************************************************)

\* generatePath: const maxAttempts = 200, scaled down for exhaustive search.
maxAttempts == 2

\* attemptPathGeneration: const maxBacktracks = 1000, scaled down likewise.
maxBacktracks == 3

\* Math.random() is drawn from { k / RandomDenominator : k \in 0..RandomDenominator-1 }.
RandomDenominator == 12

\* The largest snake grid side of SnakeSpec besides the game's own grids.
MaxSnakeSide == 5

\* GameSpec's grid and path length, <<long side, short side, length>>: the
\* code's <<12, 8, 36>> scaled down for exhaustive search, to the smallest
\* grid with two orientations on which the search can dead-end and backtrack.
GameConfig == <<4, 3, 4>>

\* 12: GRID_WIDTH on the desktop, GRID_HEIGHT on mobile (lines 59, 61).
LongSide == GameConfig[1]

\* 8: GRID_HEIGHT on the desktop, GRID_WIDTH on mobile (lines 58, 62).
ShortSide == GameConfig[2]

\* const PATH_LENGTH = 36 (line 8).
GamePathLength == GameConfig[3]

\* GameSpec stops counting peeks at MaxPeeks, and lets at most MaxPending
\* callbacks of one kind wait at a time.
MaxPeeks == 2

MaxPending == 1

(***************************************************************************)
(* Values.                                                                 *)
(***************************************************************************)

\* JavaScript null, and an array value, as one comparable shape.
Null == [isNull |-> TRUE, value |-> <<>>]

Array(a) == [isNull |-> FALSE, value |-> a]

Abs(n) == IF n < 0 THEN -n ELSE n

Min(a, b) == IF a < b THEN a ELSE b

Range(s) == {s[i] : i \in 1..Len(s)}

\* Math.random(): the numerator k of k / RandomDenominator, in [0, 1).
RandomUnit == 0..(RandomDenominator - 1)

\* Math.floor(Math.random() * n) for the draw k / RandomDenominator.
FloorRandomTimes(k, n) == (k * n) \div RandomDenominator

\* The i-th Math.random() of a step: any value, in every run.
Draw(i) == RandomUnit

\* A step of the generator that consumed the draws d: when two runs are
\* compared the draws are kept and the turn passes to the other run.
Fed(d) ==
    /\ role \in {"only", "lead", "follow"}
    /\ tape' = IF role = "only" THEN tape ELSE d
    /\ role' = CASE role = "only" -> "only"
                 [] role = "lead" -> "toFollow"
                 [] role = "follow" -> "toLead"
    /\ UNCHANGED other

\* A backtrack pops the last cell of p: p is a dead end of this attempt.
Abandon(p) ==
    abandoned' = IF abandoned.on
                 THEN [abandoned EXCEPT !.paths = @ \cup {p}]
                 ELSE abandoned

(***************************************************************************)
(* Grid geometry: idx = y * GRID_WIDTH + x.                                *)
(***************************************************************************)

XOf(index) == index % GRID_WIDTH

YOf(index) == index \div GRID_WIDTH

\* dx === 1 && dy === 0 || dx === 0 && dy === 1, on the cells' coordinates.
Adjacent(a, b) ==
    LET dx == Abs(XOf(a) - XOf(b))
        dy == Abs(YOf(a) - YOf(b))
    IN  (dx = 1 /\ dy = 0) \/ (dx = 0 /\ dy = 1)

directions ==
    << [dx |-> 0, dy |-> -1], [dx |-> 0, dy |-> 1],
       [dx |-> -1, dy |-> 0], [dx |-> 1, dy |-> 0] >>

wouldCreateLoopSkipsFirst(newIndex, currentX, currentY, p) ==
    IF Len(p) < 3 THEN FALSE
    ELSE \E i \in 2..(Len(p) - 1) : Adjacent(newIndex, p[i])

wouldCreateLoopShortcutBelow4(newIndex, currentX, currentY, p) ==
    IF Len(p) < 4 THEN FALSE
    ELSE \E i \in 1..(Len(p) - 1) : Adjacent(newIndex, p[i])

wouldCreateLoop(newIndex, currentX, currentY, p) ==
    IF Len(p) < 3 THEN FALSE
    ELSE \E i \in 1..(Len(p) - 1) : Adjacent(newIndex, p[i])

getValidNeighborsWrapsRows(index, vis, p) ==
    LET cx == XOf(index)
        cy == YOf(index)
        cell(d) == (cy + d.dy) * GRID_WIDTH + (cx + d.dx)
        ok(d) ==
            /\ cell(d) >= 0
            /\ cell(d) < GRID_WIDTH * GRID_HEIGHT
            /\ cell(d) \notin vis
            /\ ~wouldCreateLoop(cell(d), cx, cy, p)
        kept == SelectSeq(directions, ok)
    IN  [i \in 1..Len(kept) |-> cell(kept[i])]

getValidNeighborsIgnoresVisited(index, vis, p) ==
    LET cx == XOf(index)
        cy == YOf(index)
        cell(d) == (cy + d.dy) * GRID_WIDTH + (cx + d.dx)
        ok(d) ==
            /\ cx + d.dx >= 0
            /\ cx + d.dx < GRID_WIDTH
            /\ cy + d.dy >= 0
            /\ cy + d.dy < GRID_HEIGHT
            /\ ~wouldCreateLoop(cell(d), cx, cy, p)
        kept == SelectSeq(directions, ok)
    IN  [i \in 1..Len(kept) |-> cell(kept[i])]

getValidNeighbors(index, vis, p) ==
    LET cx == XOf(index)
        cy == YOf(index)
        cell(d) == (cy + d.dy) * GRID_WIDTH + (cx + d.dx)
        ok(d) ==
            /\ cx + d.dx >= 0
            /\ cx + d.dx < GRID_WIDTH
            /\ cy + d.dy >= 0
            /\ cy + d.dy < GRID_HEIGHT
            /\ cell(d) \notin vis
            /\ ~wouldCreateLoop(cell(d), cx, cy, p)
        kept == SelectSeq(directions, ok)
    IN  [i \in 1..Len(kept) |-> cell(kept[i])]

\* viable.sort((a, b) => b.score - a.score): descending by score, stable (equal
\* scores keep their order), as the sorted array's element at each rank.
SortByScore(s) ==
    LET before(i) == {j \in 1..Len(s) :
                        \/ s[j].score > s[i].score
                        \/ (s[j].score = s[i].score /\ j < i)}
    IN  [r \in 1..Len(s) |->
            s[CHOOSE i \in 1..Len(s) : Cardinality(before(i)) = r - 1]]

\* neighbors.map(n => ({index: n, score: futureNeighbors.length}))
scoredOf(neighbors, vis, p) ==
    [i \in 1..Len(neighbors) |->
        [index |-> neighbors[i],
         score |-> Len(getValidNeighbors(neighbors[i], vis \cup {neighbors[i]},
                                         Append(p, neighbors[i])))]]

viableOfKeepsAll(scored, p) == scored

\* scored.filter(s => s.score > 0 || remainingTiles <= 2)
viableOf(scored, p) ==
    LET remainingTiles == PATH_LENGTH - Len(p)
        keep(s) == s.score > 0 \/ remainingTiles <= 2
    IN  SelectSeq(scored, keep)

\* k is the Math.random() draw of the call (unused when neighbors.length === 1).
chooseNextTile(neighbors, vis, p, k) ==
    IF Len(neighbors) = 1 THEN neighbors[1]
    ELSE LET viable == viableOf(scoredOf(neighbors, vis, p), p)
         IN  IF Len(viable) = 0
             THEN neighbors[FloorRandomTimes(k, Len(neighbors)) + 1]
             ELSE LET sorted == SortByScore(viable)
                      topCount == Min(3, Len(viable))
                      topOptions == SubSeq(sorted, 1, topCount)
                  IN  topOptions[FloorRandomTimes(k, Len(topOptions)) + 1].index

(***************************************************************************)
(* generatePath, attemptPathGeneration.                                    *)
(***************************************************************************)

startIndexOfAnywhere(kx, ky) ==
    LET startX == FloorRandomTimes(kx, GRID_WIDTH)
        startY == FloorRandomTimes(ky, GRID_HEIGHT)
    IN  startY * GRID_WIDTH + startX

\* startX, startY, startIndex for the two Math.random() draws (lines 147-149).
startIndexOf(kx, ky) ==
    LET startX == 1 + FloorRandomTimes(kx, GRID_WIDTH - 2)
        startY == 1 + FloorRandomTimes(ky, GRID_HEIGHT - 2)
    IN  startY * GRID_WIDTH + startX

SearchContinuesUnbounded == Len(path) < PATH_LENGTH

SearchContinuesPastLimit == Len(path) < PATH_LENGTH /\ backtrackCount < maxBacktracks + 2

\* The loop condition of attemptPathGeneration (line 157).
SearchContinues == Len(path) < PATH_LENGTH /\ backtrackCount < maxBacktracks

attemptReturnValueAlwaysPath(p) == Array(p)

\* return path.length === PATH_LENGTH ? path : null (line 176).
attemptReturnValue(p) == IF Len(p) = PATH_LENGTH THEN Array(p) ELSE Null

\* path && path.length === PATH_LENGTH (line 131).
isFullPath(r) == ~r.isNull /\ Len(r.value) = PATH_LENGTH

\* while (attempts < maxAttempts) { const path = attemptPathGeneration(); ...
\* attemptPathGeneration, lines 143-155: the start cell and the fresh state.
AttemptStart ==
    /\ pc = "generatePath"
    /\ attempts < maxAttempts
    /\ \E kx \in Draw(1), ky \in Draw(2) :
          LET startIndex == startIndexOf(kx, ky)
          IN  /\ path' = <<startIndex>>
              /\ visited' = {startIndex}
              /\ Fed(<<kx, ky>>)
    /\ backtrackCount' = 0
    /\ pc' = "attempt"
    /\ UNCHANGED <<GRID_WIDTH, GRID_HEIGHT, PATH_LENGTH, attempts, x, y, direction,
                   attemptResult, result, log, nullReturns, iterations>>
    /\ UNCHANGED gameVars
    /\ abandoned' = [abandoned EXCEPT !.paths = {}]

BacktrackUncounted ==
    /\ pc = "attempt"
    /\ SearchContinues
    /\ Len(getValidNeighbors(path[Len(path)], visited, path)) = 0
    /\ IF Len(path) <= 1
       THEN /\ attemptResult' = Null
            /\ pc' = "check"
            /\ UNCHANGED <<path, visited, backtrackCount>>
            /\ UNCHANGED histVars
       ELSE /\ path' = SubSeq(path, 1, Len(path) - 1)
            /\ visited' = visited \ {path[Len(path)]}
            /\ UNCHANGED backtrackCount
            /\ UNCHANGED <<pc, attemptResult>>
            /\ Abandon(path)
    /\ iterations' = iterations + 1
    /\ UNCHANGED <<GRID_WIDTH, GRID_HEIGHT, PATH_LENGTH, attempts, x, y, direction,
                   result, log, nullReturns>>
    /\ UNCHANGED gameVars
    /\ Fed(<<>>)

BacktrackKeepsVisited ==
    /\ pc = "attempt"
    /\ SearchContinues
    /\ Len(getValidNeighbors(path[Len(path)], visited, path)) = 0
    /\ IF Len(path) <= 1
       THEN /\ attemptResult' = Null
            /\ pc' = "check"
            /\ UNCHANGED <<path, visited, backtrackCount>>
            /\ UNCHANGED histVars
       ELSE /\ path' = SubSeq(path, 1, Len(path) - 1)
            /\ UNCHANGED visited
            /\ backtrackCount' = backtrackCount + 1
            /\ UNCHANGED <<pc, attemptResult>>
            /\ Abandon(path)
    /\ iterations' = iterations + 1
    /\ UNCHANGED <<GRID_WIDTH, GRID_HEIGHT, PATH_LENGTH, attempts, x, y, direction,
                   result, log, nullReturns>>
    /\ UNCHANGED gameVars
    /\ Fed(<<>>)

\* The dead end branch (lines 161-168): with one cell in path, return null;
\* otherwise path.pop(); visited.delete(removed); backtrackCount++.  On a grid
\* with both sides at least 2 a one-cell path always has a neighbour, so the
\* return is then never taken.
Backtrack ==
    /\ pc = "attempt"
    /\ SearchContinues
    /\ Len(getValidNeighbors(path[Len(path)], visited, path)) = 0
    /\ IF Len(path) <= 1
       THEN /\ attemptResult' = Null
            /\ pc' = "check"
            /\ UNCHANGED <<path, visited, backtrackCount>>
            /\ UNCHANGED histVars
       ELSE /\ path' = SubSeq(path, 1, Len(path) - 1)
            /\ visited' = visited \ {path[Len(path)]}
            /\ backtrackCount' = backtrackCount + 1
            /\ UNCHANGED <<pc, attemptResult>>
            /\ Abandon(path)
    /\ iterations' = iterations + 1
    /\ UNCHANGED <<GRID_WIDTH, GRID_HEIGHT, PATH_LENGTH, attempts, x, y, direction,
                   result, log, nullReturns>>
    /\ UNCHANGED gameVars
    /\ Fed(<<>>)

PushSortLeavesTies ==
    /\ pc = "attempt"
    /\ SearchContinues
    /\ LET neighbors == getValidNeighbors(path[Len(path)], visited, path)
           viable == viableOf(scoredOf(neighbors, visited, path), path)
           sorted == SortByScore(viable)
           atRank(r) == {v.index : v \in {w \in Range(viable) : w.score = sorted[r].score}}
           choices(k) ==
               IF Len(neighbors) = 1 THEN {neighbors[1]}
               ELSE IF Len(viable) = 0
                    THEN {neighbors[FloorRandomTimes(k, Len(neighbors)) + 1]}
                    ELSE atRank(FloorRandomTimes(k, Min(3, Len(viable))) + 1)
       IN  /\ Len(neighbors) > 0
           /\ \E k \in Draw(1) :
                 \E next \in choices(k) :
                     /\ path' = Append(path, next)
                     /\ visited' = visited \cup {next}
                     /\ Fed(IF Len(neighbors) = 1 THEN <<>> ELSE <<k>>)
    /\ iterations' = iterations + 1
    /\ UNCHANGED <<GRID_WIDTH, GRID_HEIGHT, PATH_LENGTH, pc, attempts, backtrackCount,
                   x, y, direction, attemptResult, result, log, nullReturns>>
    /\ UNCHANGED gameVars
    /\ UNCHANGED histVars

\* path.push(next); visited.add(next) with next = chooseNextTile(...) (lines 171-173).
Push ==
    /\ pc = "attempt"
    /\ SearchContinues
    /\ LET neighbors == getValidNeighbors(path[Len(path)], visited, path)
       IN  /\ Len(neighbors) > 0
           /\ \E k \in Draw(1) :
                 LET next == chooseNextTile(neighbors, visited, path, k)
                 IN  /\ path' = Append(path, next)
                     /\ visited' = visited \cup {next}
                     /\ Fed(IF Len(neighbors) = 1 THEN <<>> ELSE <<k>>)
    /\ iterations' = iterations + 1
    /\ UNCHANGED <<GRID_WIDTH, GRID_HEIGHT, PATH_LENGTH, pc, attempts, backtrackCount,
                   x, y, direction, attemptResult, result, log, nullReturns>>
    /\ UNCHANGED gameVars
    /\ UNCHANGED histVars

\* return path.length === PATH_LENGTH ? path : null (line 176).
AttemptReturn ==
    /\ pc = "attempt"
    /\ ~SearchContinues
    /\ attemptResult' = attemptReturnValue(path)
    /\ pc' = "check"
    /\ UNCHANGED <<GRID_WIDTH, GRID_HEIGHT, PATH_LENGTH, attempts, path, visited,
                   backtrackCount, x, y, direction, result, log, nullReturns,
                   iterations>>
    /\ UNCHANGED gameVars
    /\ Fed(<<>>)
    /\ UNCHANGED histVars

\* if (path && path.length === PATH_LENGTH) return path (lines 131-133).
ReturnPath ==
    /\ pc = "check"
    /\ isFullPath(attemptResult)
    /\ result' = attemptResult.value
    /\ pc' = "returned"
    /\ UNCHANGED <<GRID_WIDTH, GRID_HEIGHT, PATH_LENGTH, attempts, path, visited,
                   backtrackCount, x, y, direction, attemptResult, log, nullReturns,
                   iterations>>
    /\ UNCHANGED gameVars
    /\ Fed(<<>>)
    /\ UNCHANGED histVars

\* attempts++ (line 134).
NextAttempt ==
    /\ pc = "check"
    /\ ~isFullPath(attemptResult)
    /\ attempts' = attempts + 1
    /\ nullReturns' = IF attemptResult.isNull THEN nullReturns + 1 ELSE nullReturns
    /\ pc' = "generatePath"
    /\ UNCHANGED <<GRID_WIDTH, GRID_HEIGHT, PATH_LENGTH, path, visited, backtrackCount,
                   x, y, direction, attemptResult, result, log, iterations>>
    /\ UNCHANGED gameVars
    /\ Fed(<<>>)
    /\ UNCHANGED histVars

(***************************************************************************)
(* generateSnakePath.                                                      *)
(***************************************************************************)

\* console.log('Using fallback snake path'); generateSnakePath() entered (lines 138-139, 274-277).
FallbackStart ==
    /\ pc = "generatePath"
    /\ ~(attempts < maxAttempts)
    /\ log' = Append(log, "Using fallback snake path")
    /\ path' = <<>>
    /\ x' = 0
    /\ y' = 0
    /\ direction' = 1
    /\ pc' = "snake"
    /\ UNCHANGED <<GRID_WIDTH, GRID_HEIGHT, PATH_LENGTH, attempts, visited,
                   backtrackCount, attemptResult, result, nullReturns, iterations>>
    /\ UNCHANGED gameVars
    /\ Fed(<<>>)
    /\ UNCHANGED histVars

snakeIndexHeightStride(sx, sy) == sy * GRID_HEIGHT + sx

\* const index = y * GRID_WIDTH + x (line 280).
snakeIndex(sx, sy) == sy * GRID_WIDTH + sx

snakeTurnKeepsDirection(d) == d

\* direction *= -1 (line 292).
snakeTurn(d) == d * (-1)

snakeGridNeverExhausted(sy) == FALSE

\* if (y >= GRID_HEIGHT) break (line 291).
snakeGridExhausted(sy) == sy >= GRID_HEIGHT

SnakeLoopContinuesOffByOne == Len(path) < PATH_LENGTH - 1

\* while (path.length < PATH_LENGTH) (line 279).
SnakeLoopContinues == Len(path) < PATH_LENGTH

\* One iteration of while (path.length < PATH_LENGTH) (lines 279-294); the
\* break at line 291 leaves the loop and returns the path (line 296).
SnakeStep ==
    /\ pc = "snake"
    /\ SnakeLoopContinues
    /\ LET index == snakeIndex(x, y)
           pushed == Append(path, index)
           nextX == x + direction
       IN  /\ path' = pushed
           /\ IF nextX >= 0 /\ nextX < GRID_WIDTH /\ Len(pushed) < PATH_LENGTH
              THEN /\ x' = nextX
                   /\ UNCHANGED <<y, direction, pc, result>>
              ELSE /\ y' = y + 1
                   /\ x' = x
                   /\ IF snakeGridExhausted(y + 1)
                      THEN /\ pc' = "returned"
                           /\ result' = pushed
                           /\ UNCHANGED direction
                      ELSE /\ direction' = snakeTurn(direction)
                           /\ UNCHANGED <<pc, result>>
    /\ UNCHANGED <<GRID_WIDTH, GRID_HEIGHT, PATH_LENGTH, attempts, visited,
                   backtrackCount, attemptResult, log, nullReturns, iterations>>
    /\ UNCHANGED gameVars
    /\ Fed(<<>>)
    /\ UNCHANGED histVars

\* The loop condition fails: return path (line 296).
SnakeReturn ==
    /\ pc = "snake"
    /\ ~SnakeLoopContinues
    /\ result' = path
    /\ pc' = "returned"
    /\ UNCHANGED <<GRID_WIDTH, GRID_HEIGHT, PATH_LENGTH, attempts, path, visited,
                   backtrackCount, x, y, direction, attemptResult, log, nullReturns,
                   iterations>>
    /\ UNCHANGED gameVars
    /\ Fed(<<>>)
    /\ UNCHANGED histVars

\* The generator's steps.
GenNext ==
    \/ AttemptStart
    \/ Backtrack
    \/ Push
    \/ AttemptReturn
    \/ ReturnPath
    \/ NextAttempt
    \/ FallbackStart
    \/ SnakeStep
    \/ SnakeReturn

(***************************************************************************)
(* The page before any game: gameState as declared (lines 11-18), the grid *)
(* built by createGrid() (tiles of class 'tile disabled'), the buttons as  *)
(* resetGame leaves them.  Of the DOM the model keeps what the handlers    *)
(* test or what decides who can call them ('disabled' on tiles and         *)
(* buttons) and whether the pattern is displayed; texts, colours of single *)
(* tiles, the overlay and the modals are left out.                         *)
(***************************************************************************)

GameInit ==
    /\ gameState = [pattern |-> <<>>, userSelected |-> <<>>, mode |-> "IDLE",
                    timerInterval |-> 0, startTime |-> 0, peekCount |-> 0]
    /\ tilesDisabled = TRUE
    /\ patternShown = FALSE
    /\ startBtnDisabled = FALSE
    /\ peekBtnDisabled = TRUE
    /\ recallBtnDisabled = TRUE
    /\ timers = [displayPattern |-> 0, handleResize |-> 0]
    /\ intervals = {}
    /\ called = "none"

\* The dead ends of an attempt are not kept.
NoHistory == abandoned = [on |-> FALSE, paths |-> {}]

\* One run of generatePath at a time: nothing is compared with another run.
SingleRun ==
    /\ role = "only"
    /\ tape = <<>>
    /\ other = Null

\* generatePath entered: let attempts = 0 (line 126).
CallGeneratePath ==
    /\ pc = "generatePath"
    /\ attempts = 0
    /\ path = <<>>
    /\ visited = {}
    /\ backtrackCount = 0
    /\ x = 0
    /\ y = 0
    /\ direction = 1
    /\ attemptResult = Null
    /\ result = <<>>
    /\ log = <<>>
    /\ nullReturns = 0
    /\ iterations = 0

\* The (width, height, length) inputs of Spec: both orientations of a small
\* grid, the full-coverage 4x4, and lengths beyond the grid.  Both sides are
\* at least 2, as on the 12x8 and 8x12 grids setGridDimensions builds.
Configs ==
    { <<4, 3, 4>>, <<3, 4, 4>>, <<5, 4, 7>>, <<4, 4, 16>>, <<3, 3, 10>>,
      <<2, 2, 3>>, <<2, 2, 5>> }

Init ==
    /\ \E c \in Configs :
          /\ GRID_WIDTH = c[1]
          /\ GRID_HEIGHT = c[2]
          /\ PATH_LENGTH = c[3]
    /\ CallGeneratePath
    /\ mobile = FALSE
    /\ GameInit
    /\ SingleRun
    /\ NoHistory

Next == GenNext

Spec == Init /\ [][Next]_vars

(***************************************************************************)
(* Game flow.  One event handler runs at a time (pc = "idle" between       *)
(* handlers); startGame runs generatePath inside it, so StartGame enters   *)
(* the generator and StartGameFinish is the rest of the handler.           *)
(***************************************************************************)

\* The generator's locals when no call is running.
GeneratorAtRest ==
    /\ attempts = 0
    /\ path = <<>>
    /\ visited = {}
    /\ backtrackCount = 0
    /\ x = 0
    /\ y = 0
    /\ direction = 1
    /\ attemptResult = Null
    /\ result = <<>>
    /\ log = <<>>
    /\ nullReturns = 0
    /\ iterations = 0

\* setGridDimensions (lines 56-63): GRID_WIDTH for isMobileView() = m.
gridWidthFor(m) == IF m THEN ShortSide ELSE LongSide

\* setGridDimensions (lines 56-63): GRID_HEIGHT for isMobileView() = m.
gridHeightFor(m) == IF m THEN LongSide ELSE ShortSide

\* setInterval's return value: an id no active interval has.  Ids are only
\* compared for equality, so the least free one stands for the fresh one.
freshIntervalId(active) ==
    CHOOSE i \in 1..(Cardinality(active) + 1) :
        i \notin active /\ \A j \in 1..(i - 1) : j \in active

\* clearInterval(id): null (0) and ids that are not active clear nothing.
clearInterval(active, id) == active \ {id}

\* displayPattern (lines 456-466): the tiles of gameState.pattern turn green.
displayPattern(pattern) == Len(pattern) > 0

alreadySelectedNever(index) == FALSE

\* gameState.userSelected.includes(index) (line 369).
alreadySelected(index) == index \in Range(gameState.userSelected)

\* gameState.pattern.includes(index) (line 372).
inPattern(index) == index \in Range(gameState.pattern)

peekCountAfterEveryShow(gs) == gs.peekCount + 1

\* if (gameState.mode === 'RECALL') gameState.peekCount++ (lines 340-342).
peekCountAfterShow(gs) == IF gs.mode = "RECALL" THEN gs.peekCount + 1 ELSE gs.peekCount

showPatternKeepsSelection(gs) ==
    [gs EXCEPT !.peekCount = peekCountAfterShow(gs), !.mode = "MEMORIZE"]

\* showPattern's writes to gameState (lines 340-345).
showPattern(gs) ==
    [gs EXCEPT !.peekCount = peekCountAfterShow(gs),
               !.mode = "MEMORIZE",
               !.userSelected = <<>>]

winGameClearsPattern(gs) == [gs EXCEPT !.mode = "IDLE", !.pattern = <<>>]

\* winGame's write to gameState (line 390).
winGame(gs) == [gs EXCEPT !.mode = "IDLE"]

loseGameClearsSelection(gs) == [gs EXCEPT !.mode = "IDLE", !.userSelected = <<>>]

\* loseGame's write to gameState (line 403).
loseGame(gs) == [gs EXCEPT !.mode = "IDLE"]

\* startBtn click, lines 303-309 up to the call: setGridDimensions(),
\* createGrid(), generatePath() entered.
StartGame ==
    /\ pc = "idle"
    /\ ~startBtnDisabled
    /\ GRID_WIDTH' = gridWidthFor(mobile)
    /\ GRID_HEIGHT' = gridHeightFor(mobile)
    /\ tilesDisabled' = TRUE
    /\ patternShown' = FALSE
    /\ pc' = "generatePath"
    /\ called' = "none"
    /\ UNCHANGED <<PATH_LENGTH, attempts, path, visited, backtrackCount, x, y,
                   direction, attemptResult, result, log, nullReturns, iterations>>
    /\ UNCHANGED <<gameState, mobile, startBtnDisabled, peekBtnDisabled,
                   recallBtnDisabled, timers, intervals>>
    /\ UNCHANGED detVars
    /\ UNCHANGED histVars

\* startGame after generatePath has returned (lines 309-336).
StartGameFinish ==
    /\ pc = "returned"
    /\ LET cleared == IF gameState.timerInterval # 0
                      THEN clearInterval(intervals, gameState.timerInterval)
                      ELSE intervals
           id == freshIntervalId(cleared)
       IN  /\ gameState' = [pattern |-> result, userSelected |-> <<>>,
                            mode |-> "MEMORIZE", timerInterval |-> id,
                            startTime |-> 1, peekCount |-> 0]
           /\ intervals' = cleared \cup {id}
    /\ patternShown' = displayPattern(result)
    /\ startBtnDisabled' = TRUE
    /\ peekBtnDisabled' = FALSE
    /\ recallBtnDisabled' = FALSE
    /\ tilesDisabled' = FALSE
    /\ called' = "none"
    /\ pc' = "idle"
    /\ attempts' = 0
    /\ path' = <<>>
    /\ visited' = {}
    /\ backtrackCount' = 0
    /\ x' = 0
    /\ y' = 0
    /\ direction' = 1
    /\ attemptResult' = Null
    /\ result' = <<>>
    /\ log' = <<>>
    /\ nullReturns' = 0
    /\ iterations' = 0
    /\ UNCHANGED <<GRID_WIDTH, GRID_HEIGHT, PATH_LENGTH, mobile, timers>>
    /\ UNCHANGED detVars
    /\ UNCHANGED histVars

\* peekBtn click: showPattern (lines 339-350).
ShowPattern ==
    /\ pc = "idle"
    /\ ~peekBtnDisabled
    /\ gameState.mode = "RECALL" => gameState.peekCount < MaxPeeks
    /\ gameState' = showPattern(gameState)
    /\ patternShown' = displayPattern(gameState.pattern)
    /\ called' = "none"
    /\ UNCHANGED genVars
    /\ UNCHANGED <<mobile, tilesDisabled, startBtnDisabled, peekBtnDisabled,
                   recallBtnDisabled, timers, intervals>>
    /\ UNCHANGED detVars
    /\ UNCHANGED histVars

\* recallBtn click: startRecall (lines 352-358).
StartRecall ==
    /\ pc = "idle"
    /\ ~recallBtnDisabled
    /\ gameState' = [gameState EXCEPT !.mode = "RECALL"]
    /\ patternShown' = FALSE
    /\ tilesDisabled' = FALSE
    /\ called' = "none"
    /\ UNCHANGED genVars
    /\ UNCHANGED <<mobile, startBtnDisabled, peekBtnDisabled, recallBtnDisabled,
                   timers, intervals>>
    /\ UNCHANGED detVars
    /\ UNCHANGED histVars

\* pointerdown on the tile with data-index = index: handleTileClick (lines
\* 360-387), with winGame (lines 389-400) and loseGame (lines 402-420) where
\* it calls them.
TilePress(index) ==
    /\ pc = "idle"
    /\ IF gameState.mode # "RECALL" \/ tilesDisabled \/ alreadySelected(index)
       THEN /\ called' = "none"
            /\ UNCHANGED <<gameState, tilesDisabled, timers, intervals>>
       ELSE IF inPattern(index)
       THEN LET selected == Append(gameState.userSelected, index)
            IN  IF Len(selected) = PATH_LENGTH
                THEN /\ gameState' = winGame([gameState EXCEPT !.userSelected = selected])
                     /\ intervals' = clearInterval(intervals, gameState.timerInterval)
                     /\ called' = "winGame"
                     /\ UNCHANGED <<tilesDisabled, timers>>
                ELSE /\ gameState' = [gameState EXCEPT !.userSelected = selected]
                     /\ called' = "none"
                     /\ UNCHANGED <<tilesDisabled, timers, intervals>>
       ELSE /\ timers.displayPattern < MaxPending
            /\ gameState' = loseGame(gameState)
            /\ intervals' = clearInterval(intervals, gameState.timerInterval)
            /\ tilesDisabled' = TRUE
            /\ timers' = [timers EXCEPT !.displayPattern = @ + 1]
            /\ called' = "loseGame"
    /\ UNCHANGED genVars
    /\ UNCHANGED <<mobile, patternShown, startBtnDisabled, peekBtnDisabled,
                   recallBtnDisabled>>
    /\ UNCHANGED detVars
    /\ UNCHANGED histVars

\* pointerdown on any tile of the grid.
HandleTileClick == \E index \in 0..(GRID_WIDTH * GRID_HEIGHT - 1) : TilePress(index)

\* The callback loseGame scheduled with setTimeout(..., 300) (lines 413-415).
DisplayPatternTimeout ==
    /\ pc = "idle"
    /\ timers.displayPattern > 0
    /\ timers' = [timers EXCEPT !.displayPattern = @ - 1]
    /\ patternShown' = displayPattern(gameState.pattern)
    /\ called' = "none"
    /\ UNCHANGED genVars
    /\ UNCHANGED <<gameState, mobile, tilesDisabled, startBtnDisabled,
                   peekBtnDisabled, recallBtnDisabled, intervals>>
    /\ UNCHANGED detVars
    /\ UNCHANGED histVars

\* retryBtn / playAgainBtn click: resetGame (lines 422-450).
ResetGame ==
    /\ pc = "idle"
    /\ gameState' = [gameState EXCEPT !.mode = "IDLE", !.pattern = <<>>,
                                      !.userSelected = <<>>, !.peekCount = 0]
    /\ intervals' = IF gameState.timerInterval # 0
                    THEN clearInterval(intervals, gameState.timerInterval)
                    ELSE intervals
    /\ patternShown' = FALSE
    /\ tilesDisabled' = TRUE
    /\ startBtnDisabled' = FALSE
    /\ peekBtnDisabled' = TRUE
    /\ recallBtnDisabled' = TRUE
    /\ called' = "none"
    /\ UNCHANGED genVars
    /\ UNCHANGED <<mobile, timers>>
    /\ UNCHANGED detVars
    /\ UNCHANGED histVars

\* The window is resized: the media query may change its answer, and the
\* debounced listener (lines 48, 80-90) re-arms its 250 ms timeout.
WindowResize ==
    /\ pc = "idle"
    /\ mobile' \in BOOLEAN
    /\ timers' = [timers EXCEPT !.handleResize = 1]
    /\ called' = "none"
    /\ UNCHANGED genVars
    /\ UNCHANGED <<gameState, tilesDisabled, patternShown, startBtnDisabled,
                   peekBtnDisabled, recallBtnDisabled, intervals>>
    /\ UNCHANGED detVars
    /\ UNCHANGED histVars

\* The debounce timeout fires: handleResize (lines 69-78), with
\* setGridDimensions() and createGrid() when it rebuilds.
HandleResize ==
    /\ pc = "idle"
    /\ timers.handleResize > 0
    /\ timers' = [timers EXCEPT !.handleResize = 0]
    /\ LET currentlyMobile == GRID_WIDTH = ShortSide
           shouldBeMobile == mobile
       IN  IF currentlyMobile # shouldBeMobile /\ gameState.mode = "IDLE"
           THEN /\ GRID_WIDTH' = gridWidthFor(mobile)
                /\ GRID_HEIGHT' = gridHeightFor(mobile)
                /\ tilesDisabled' = TRUE
                /\ patternShown' = FALSE
           ELSE UNCHANGED <<GRID_WIDTH, GRID_HEIGHT, tilesDisabled, patternShown>>
    /\ called' = "none"
    /\ UNCHANGED <<PATH_LENGTH, pc, attempts, path, visited, backtrackCount, x, y,
                   direction, attemptResult, result, log, nullReturns, iterations>>
    /\ UNCHANGED <<gameState, mobile, startBtnDisabled, peekBtnDisabled,
                   recallBtnDisabled, intervals>>
    /\ UNCHANGED detVars
    /\ UNCHANGED histVars

\* The page after init() (lines 42-49): the grid sized for the viewport.
GameSpecInit ==
    /\ mobile \in BOOLEAN
    /\ GRID_WIDTH = gridWidthFor(mobile)
    /\ GRID_HEIGHT = gridHeightFor(mobile)
    /\ PATH_LENGTH = GamePathLength
    /\ pc = "idle"
    /\ GeneratorAtRest
    /\ GameInit
    /\ SingleRun
    /\ NoHistory

GameNext ==
    \/ StartGame
    \/ AttemptStart
    \/ Backtrack
    \/ Push
    \/ AttemptReturn
    \/ ReturnPath
    \/ NextAttempt
    \/ FallbackStart
    \/ SnakeStep
    \/ SnakeReturn
    \/ StartGameFinish
    \/ ShowPattern
    \/ StartRecall
    \/ HandleTileClick
    \/ DisplayPatternTimeout
    \/ ResetGame
    \/ WindowResize
    \/ HandleResize

GameSpec == GameSpecInit /\ [][GameNext]_vars

(***************************************************************************)
(* generateSnakePath alone: the state at its entry (line 273), after       *)
(* generatePath has used up its attempts, for a range of grids.            *)
(***************************************************************************)

SnakeConfigs ==
    { <<w, h, l>> : w \in 1..MaxSnakeSide, h \in 1..MaxSnakeSide,
                    l \in 0..(MaxSnakeSide * MaxSnakeSide + 1) }
    \cup { <<12, 8, 36>>, <<8, 12, 36>> }

SnakeInit ==
    /\ \E c \in SnakeConfigs :
          /\ c[3] <= c[1] * c[2] + 1
          /\ GRID_WIDTH = c[1]
          /\ GRID_HEIGHT = c[2]
          /\ PATH_LENGTH = c[3]
    /\ pc = "snake"
    /\ attempts = maxAttempts
    /\ path = <<>>
    /\ visited = {}
    /\ backtrackCount = 0
    /\ x = 0
    /\ y = 0
    /\ direction = 1
    /\ attemptResult = Null
    /\ result = <<>>
    /\ log = <<"Using fallback snake path">>
    /\ nullReturns = maxAttempts
    /\ iterations = 0
    /\ mobile = FALSE
    /\ GameInit
    /\ SingleRun
    /\ NoHistory

SnakeNext == SnakeStep \/ SnakeReturn

SnakeSpec == SnakeInit /\ [][SnakeNext]_vars

(***************************************************************************)
(* Two runs of generatePath on the same grid and length.  Each run draws   *)
(* its own Math.random() outputs and takes its own steps; the runs step in *)
(* turn and each keeps the draws its last step consumed.  The pair is      *)
(* followed for as long as the two runs have drawn the same values.  The   *)
(* generator variables hold the run whose turn it is, `other` holds the    *)
(* run that waits.                                                         *)
(***************************************************************************)

\* The generator variables of the run whose turn it is.
GeneratorState ==
    [pc |-> pc, attempts |-> attempts, path |-> path, visited |-> visited,
     backtrackCount |-> backtrackCount, x |-> x, y |-> y, direction |-> direction,
     attemptResult |-> attemptResult, result |-> result, log |-> log,
     nullReturns |-> nullReturns, iterations |-> iterations, tape |-> tape]

\* The runs change places.
SwapRuns ==
    /\ other' = GeneratorState
    /\ pc' = other.pc
    /\ attempts' = other.attempts
    /\ path' = other.path
    /\ visited' = other.visited
    /\ backtrackCount' = other.backtrackCount
    /\ x' = other.x
    /\ y' = other.y
    /\ direction' = other.direction
    /\ attemptResult' = other.attemptResult
    /\ result' = other.result
    /\ log' = other.log
    /\ nullReturns' = other.nullReturns
    /\ iterations' = other.iterations
    /\ tape' = other.tape
    /\ UNCHANGED <<GRID_WIDTH, GRID_HEIGHT, PATH_LENGTH>>
    /\ UNCHANGED gameVars
    /\ UNCHANGED histVars

\* The leading run has stepped: the following run's turn.
PassToFollower ==
    /\ role = "toFollow"
    /\ role' = "follow"
    /\ SwapRuns

\* The draws of the two runs' last steps agree as far as both drew.
SameDraws ==
    \A i \in 1..Min(Len(tape), Len(other.tape)) : tape[i] = other.tape[i]

\* The following run has stepped on the same draws: the leading run's turn.
PassToLeader ==
    /\ role = "toLead"
    /\ SameDraws
    /\ role' = "lead"
    /\ SwapRuns

\* The (width, height, length) inputs of DetSpec: the inputs of Spec on which
\* two runs stepping in turn can be searched exhaustively.
DetConfigs ==
    { <<4, 3, 4>>, <<2, 2, 3>>, <<2, 2, 5>> }

DetInit ==
    /\ \E c \in DetConfigs :
          /\ GRID_WIDTH = c[1]
          /\ GRID_HEIGHT = c[2]
          /\ PATH_LENGTH = c[3]
    /\ CallGeneratePath
    /\ mobile = FALSE
    /\ GameInit
    /\ role = "lead"
    /\ tape = <<>>
    /\ other = GeneratorState
    /\ NoHistory

DetNext ==
    \/ AttemptStart
    \/ Backtrack
    \/ Push
    \/ AttemptReturn
    \/ ReturnPath
    \/ NextAttempt
    \/ FallbackStart
    \/ SnakeStep
    \/ SnakeReturn
    \/ PassToFollower
    \/ PassToLeader

DetSpec == DetInit /\ [][DetNext]_vars

(***************************************************************************)
(* generatePath with the dead ends of the running attempt kept: every      *)
(* path a backtrack popped from, since the attempt started.                *)
(***************************************************************************)

AbandonInit ==
    /\ \E c \in Configs :
          /\ GRID_WIDTH = c[1]
          /\ GRID_HEIGHT = c[2]
          /\ PATH_LENGTH = c[3]
    /\ CallGeneratePath
    /\ mobile = FALSE
    /\ GameInit
    /\ SingleRun
    /\ abandoned = [on |-> TRUE, paths |-> {}]

AbandonNext == GenNext

AbandonSpec == AbandonInit /\ [][AbandonNext]_vars

(***************************************************************************)
(* The variant src/game.js: one call of its attemptPathGeneration (lines   *)
(* 86-116).  It starts anywhere on the grid, keeps no backtrack counter    *)
(* and leaves popped cells in visited.  pc is "generatePath" before the    *)
(* call, "attempt" in its loop and "check" when it has returned;           *)
(* backtrackCount and iterations are history here (the pops and the loop   *)
(* iterations so far).                                                     *)
(***************************************************************************)

\* game.js wouldCreateLoop(newIndex, path) (lines 150-171).
VariantWouldCreateLoop(newIndex, p) ==
    IF Len(p) < 3 THEN FALSE
    ELSE \E i \in 1..(Len(p) - 1) : Adjacent(newIndex, p[i])

\* game.js getUnvisitedNeighbors (lines 118-148).
getUnvisitedNeighbors(index, vis, p) ==
    LET cx == XOf(index)
        cy == YOf(index)
        cell(d) == (cy + d.dy) * GRID_WIDTH + (cx + d.dx)
        ok(d) ==
            /\ cx + d.dx >= 0
            /\ cx + d.dx < GRID_WIDTH
            /\ cy + d.dy >= 0
            /\ cy + d.dy < GRID_HEIGHT
            /\ cell(d) \notin vis
            /\ ~VariantWouldCreateLoop(cell(d), p)
        kept == SelectSeq(directions, ok)
    IN  [i \in 1..Len(kept) |-> cell(kept[i])]

\* game.js chooseNextTile (lines 173-187): the score looks from n with n
\* added to visited and the path as it is; the top half, rounded up, of the
\* candidates sorted by score; k is the Math.random() draw.
VariantChooseNextTile(neighbors, vis, p, k) ==
    LET scored == [i \in 1..Len(neighbors) |->
                      [index |-> neighbors[i],
                       score |-> Len(getUnvisitedNeighbors(neighbors[i],
                                         vis \cup {neighbors[i]}, p))]]
        sorted == SortByScore(scored)
        topHalf == SubSeq(sorted, 1, (Len(sorted) + 1) \div 2)
    IN  topHalf[FloorRandomTimes(k, Len(topHalf)) + 1].index

\* game.js lines 91-93: the start cell for the two draws.
VariantStartIndexOf(kx, ky) ==
    LET startX == FloorRandomTimes(kx, GRID_WIDTH)
        startY == FloorRandomTimes(ky, GRID_HEIGHT)
    IN  startY * GRID_WIDTH + startX

\* game.js lines 87-96.
VariantAttemptStart ==
    /\ pc = "generatePath"
    /\ \E kx \in Draw(1), ky \in Draw(2) :
          LET startIndex == VariantStartIndexOf(kx, ky)
          IN  /\ path' = <<startIndex>>
              /\ visited' = {startIndex}
              /\ Fed(<<kx, ky>>)
    /\ pc' = "attempt"
    /\ UNCHANGED <<GRID_WIDTH, GRID_HEIGHT, PATH_LENGTH, attempts, backtrackCount,
                   x, y, direction, attemptResult, result, log, nullReturns,
                   iterations>>
    /\ UNCHANGED gameVars
    /\ UNCHANGED histVars

\* game.js line 104: dead end with path.length <= 1, return null.
VariantDeadEndAtStart ==
    /\ pc = "attempt"
    /\ Len(path) < PATH_LENGTH
    /\ Len(getUnvisitedNeighbors(path[Len(path)], visited, path)) = 0
    /\ Len(path) <= 1
    /\ attemptResult' = Null
    /\ pc' = "check"
    /\ iterations' = iterations + 1
    /\ UNCHANGED <<GRID_WIDTH, GRID_HEIGHT, PATH_LENGTH, attempts, path, visited,
                   backtrackCount, x, y, direction, result, log, nullReturns>>
    /\ UNCHANGED gameVars
    /\ Fed(<<>>)
    /\ UNCHANGED histVars

VariantBacktrackForgets ==
    /\ pc = "attempt"
    /\ Len(path) < PATH_LENGTH
    /\ Len(getUnvisitedNeighbors(path[Len(path)], visited, path)) = 0
    /\ Len(path) > 1
    /\ path' = SubSeq(path, 1, Len(path) - 1)
    /\ visited' = visited \ {path[Len(path)]}
    /\ backtrackCount' = backtrackCount + 1
    /\ iterations' = iterations + 1
    /\ UNCHANGED <<GRID_WIDTH, GRID_HEIGHT, PATH_LENGTH, pc, attempts, x, y,
                   direction, attemptResult, result, log, nullReturns>>
    /\ UNCHANGED gameVars
    /\ Fed(<<>>)
    /\ UNCHANGED histVars

\* game.js lines 102-106: dead end, path.pop(); visited keeps the popped cell.
VariantBacktrack ==
    /\ pc = "attempt"
    /\ Len(path) < PATH_LENGTH
    /\ Len(getUnvisitedNeighbors(path[Len(path)], visited, path)) = 0
    /\ Len(path) > 1
    /\ path' = SubSeq(path, 1, Len(path) - 1)
    /\ backtrackCount' = backtrackCount + 1
    /\ iterations' = iterations + 1
    /\ UNCHANGED <<GRID_WIDTH, GRID_HEIGHT, PATH_LENGTH, pc, attempts, visited, x, y,
                   direction, attemptResult, result, log, nullReturns>>
    /\ UNCHANGED gameVars
    /\ Fed(<<>>)
    /\ UNCHANGED histVars

\* game.js lines 110-112.
VariantPush ==
    /\ pc = "attempt"
    /\ Len(path) < PATH_LENGTH
    /\ LET neighbors == getUnvisitedNeighbors(path[Len(path)], visited, path)
       IN  /\ Len(neighbors) > 0
           /\ \E k \in Draw(1) :
                 LET next == VariantChooseNextTile(neighbors, visited, path, k)
                 IN  /\ path' = Append(path, next)
                     /\ visited' = visited \cup {next}
                     /\ Fed(<<k>>)
    /\ iterations' = iterations + 1
    /\ UNCHANGED <<GRID_WIDTH, GRID_HEIGHT, PATH_LENGTH, pc, attempts, backtrackCount,
                   x, y, direction, attemptResult, result, log, nullReturns>>
    /\ UNCHANGED gameVars
    /\ UNCHANGED histVars

\* game.js line 115: return path.
VariantAttemptReturn ==
    /\ pc = "attempt"
    /\ ~(Len(path) < PATH_LENGTH)
    /\ attemptResult' = Array(path)
    /\ pc' = "check"
    /\ UNCHANGED <<GRID_WIDTH, GRID_HEIGHT, PATH_LENGTH, attempts, path, visited,
                   backtrackCount, x, y, direction, result, log, nullReturns,
                   iterations>>
    /\ UNCHANGED gameVars
    /\ Fed(<<>>)
    /\ UNCHANGED histVars

\* The inputs of VariantSpec: grids on which a walk can trap itself, lengths
\* up to the whole grid and one beyond it.
VariantConfigs ==
    { <<3, 3, 5>>, <<4, 3, 6>>, <<3, 4, 6>>, <<3, 3, 9>>, <<3, 3, 10>>, <<2, 2, 3>> }

VariantInit ==
    /\ \E c \in VariantConfigs :
          /\ GRID_WIDTH = c[1]
          /\ GRID_HEIGHT = c[2]
          /\ PATH_LENGTH = c[3]
    /\ CallGeneratePath
    /\ mobile = FALSE
    /\ GameInit
    /\ SingleRun
    /\ NoHistory

VariantNext ==
    \/ VariantAttemptStart
    \/ VariantDeadEndAtStart
    \/ VariantBacktrack
    \/ VariantPush
    \/ VariantAttemptReturn

VariantSpec == VariantInit /\ [][VariantNext]_vars

(***************************************************************************)
(* Properties of paths, stated on coordinates (x, y) = (idx mod width,     *)
(* idx div width).                                                         *)
(***************************************************************************)

Manhattan(a, b) ==
    Abs((a % GRID_WIDTH) - (b % GRID_WIDTH))
    + Abs((a \div GRID_WIDTH) - (b \div GRID_WIDTH))

Distinct(s) == \A i, j \in 1..Len(s) : i # j => s[i] # s[j]

InGrid(s) == \A i \in 1..Len(s) : s[i] \in 0..(GRID_WIDTH * GRID_HEIGHT - 1)

ConsecutiveAdjacent(s) == \A i \in 1..(Len(s) - 1) : Manhattan(s[i], s[i + 1]) = 1

NoTouch(s) == \A i, j \in 1..Len(s) : j > i + 1 => Manhattan(s[i], s[j]) # 1

\* generatePath has returned from the search / from the fallback.
ReturnedFromSearch == pc = "returned" /\ log = <<>>

ReturnedFromFallback == pc = "returned" /\ log # <<>>

\* A grid and length the generator's contract admits, with the start cell on the grid.
ValidConfig ==
    GRID_WIDTH >= 2 /\ GRID_HEIGHT >= 2
    /\ PATH_LENGTH > 0 /\ PATH_LENGTH <= GRID_WIDTH * GRID_HEIGHT

(***************************************************************************)
(* C1..C9: the generator.                                                  *)
(***************************************************************************)

\* C1: on every grid of at least 2x2 and every length 0 < length <= width*height
\* (the game's two orientations among them), whatever generatePath returns, from
\* the search or from the snake fallback, is a sequence of exactly PATH_LENGTH
\* pairwise distinct cell indices, each in 0..width*height-1.
C1_ReturnsLengthDistinctCells ==
    (pc = "returned" /\ ValidConfig) =>
        /\ Len(result) = PATH_LENGTH
        /\ Distinct(result)
        /\ InGrid(result)

\* C1 witness: a search attempt that backtracked has returned a full path.
C1_Witness ==
    /\ ReturnedFromSearch
    /\ ValidConfig
    /\ backtrackCount > 0
    /\ Len(result) = PATH_LENGTH
    /\ PATH_LENGTH >= 4

\* C2: in every returned path, from the search or from the fallback, every
\* consecutive pair of cells is at Manhattan distance exactly 1 (so no step
\* wraps from the end of one row to the start of the next).
C2_ConsecutiveAdjacent ==
    pc = "returned" => ConsecutiveAdjacent(result)

\* C2 witness: the fallback has returned a path that runs over more than one row.
C2_Witness ==
    /\ ReturnedFromFallback
    /\ ValidConfig
    /\ Len(result) > GRID_WIDTH

\* C3: at every point of a search attempt, and in every path an attempt
\* returns, no two cells at positions i, j with |i-j| > 1 are at Manhattan
\* distance 1.
C3_NoTouchInSearch ==
    /\ pc \in {"attempt", "check"} => NoTouch(path)
    /\ ~attemptResult.isNull => NoTouch(attemptResult.value)

\* C3 witness: a search in progress holds at least 5 cells after a backtrack.
C3_Witness ==
    /\ pc = "attempt"
    /\ backtrackCount > 0
    /\ Len(path) >= 5

\* A measure of the work a call of generatePath has left: the attempts not
\* yet started, each worth a full attempt (maxBacktracks backtracks, each with
\* the pushes that may precede it), then the fallback's pushes.
RankLength == IF PATH_LENGTH > 1 THEN PATH_LENGTH ELSE 1

RankAttempt == 2 + (maxBacktracks + 1) * (RankLength + 1)

Rank ==
    CASE pc = "returned" -> 0
      [] pc = "snake" -> 1 + (PATH_LENGTH - Len(path))
      [] pc = "generatePath" ->
            2 + PATH_LENGTH + (maxAttempts - attempts) * RankAttempt
      [] pc = "check" ->
            2 + PATH_LENGTH + (maxAttempts - attempts - 1) * RankAttempt + 1
      [] pc = "attempt" ->
            2 + PATH_LENGTH + (maxAttempts - attempts - 1) * RankAttempt + 2
            + (maxBacktracks - backtrackCount) * (RankLength + 1)
            + (RankLength - Len(path))

\* C4: every call of generatePath terminates whatever the random draws: it
\* starts at most maxAttempts attempts, an attempt makes at most maxBacktracks
\* backtracks, the fallback pushes at most PATH_LENGTH cells, every step
\* (loop iteration, attempt, return) lowers a natural-number measure of the
\* work left, and the call can always take a step until it has returned.
C4_Terminates ==
    /\ [](attempts <= maxAttempts)
    /\ [](backtrackCount <= maxBacktracks)
    /\ [](pc \in {"snake", "returned"} /\ log # <<>> => Len(path) <= PATH_LENGTH)
    /\ [](Rank \in Nat)
    /\ [][Rank' < Rank]_vars
    /\ [](pc = "returned" \/ ENABLED Next)

\* C4 witness: the call returned after every attempt ran out of backtracks.
C4_Witness ==
    /\ ReturnedFromFallback
    /\ attempts = maxAttempts
    /\ backtrackCount = maxBacktracks
    /\ Len(result) = PATH_LENGTH

\* C5: generatePath returns the path of the first attempt that yields a full
\* path, at once and without changing the attempt counter; nothing runs after
\* the return; the fallback is what it returns exactly when all maxAttempts
\* attempts returned null; a search result is the non-null value of the last
\* attempt, all earlier attempts having returned null; and every attempt
\* starts with a one-cell path, visited holding that cell, and a zero
\* backtrack counter.
C5_FirstSuccessOrFallback ==
    /\ [][pc = "check" /\ ~attemptResult.isNull =>
            pc' = "returned" /\ result' = attemptResult.value
            /\ attempts' = attempts]_vars
    /\ [][pc # "returned"]_vars
    /\ [](pc = "returned" =>
            /\ (log # <<>>) <=> (nullReturns = maxAttempts)
            /\ log # <<>> => attempts = maxAttempts /\ result = path
            /\ log = <<>> => /\ ~attemptResult.isNull
                             /\ result = attemptResult.value
                             /\ nullReturns = attempts
                             /\ attempts < maxAttempts)
    /\ [][pc = "generatePath" /\ pc' = "attempt" =>
            /\ Len(path') = 1
            /\ visited' = {path'[1]}
            /\ backtrackCount' = 0]_vars

\* C5 witness: a later attempt succeeded after an earlier one returned null
\* with its backtrack budget used up.
C5_Witness ==
    /\ ReturnedFromSearch
    /\ nullReturns > 0
    /\ attempts = nullReturns

\* The k-th cell (k from 0) of the boustrophedon order that starts at (0,0).
BoustrophedonCell(k) ==
    LET r == k \div GRID_WIDTH
        c == k % GRID_WIDTH
    IN  r * GRID_WIDTH + (IF r % 2 = 0 THEN c ELSE GRID_WIDTH - 1 - c)

\* C6: for length <= width*height generateSnakePath returns exactly the
\* boustrophedon sequence from (0,0): its k-th cell is in row k div width, in
\* column k mod width on even rows and width-1-(k mod width) on odd rows; while
\* it runs, its path is a prefix of that one sequence (one outcome per input).
C6_SnakeIsBoustrophedon ==
    (pc \in {"snake", "returned"} /\ log # <<>>
     /\ PATH_LENGTH <= GRID_WIDTH * GRID_HEIGHT) =>
        /\ path = [k \in 1..Len(path) |-> BoustrophedonCell(k - 1)]
        /\ pc = "returned" =>
              result = [k \in 1..PATH_LENGTH |-> BoustrophedonCell(k - 1)]

\* C6 witness: the fallback returned 36 cells on the 12x8 grid.
C6_Witness ==
    /\ ReturnedFromFallback
    /\ GRID_WIDTH = 12 /\ GRID_HEIGHT = 8 /\ PATH_LENGTH = 36
    /\ Len(result) = 36
    /\ result[13] = 23

\* C7: for width >= 2 and width+2 <= length <= width*height the snake path
\* has every consecutive pair adjacent, and holds two cells at non-consecutive
\* positions, in adjacent rows, at Manhattan distance 1.
C7_SnakeTouches ==
    (ReturnedFromFallback /\ GRID_WIDTH >= 2
     /\ GRID_WIDTH + 2 <= PATH_LENGTH
     /\ PATH_LENGTH <= GRID_WIDTH * GRID_HEIGHT) =>
        /\ ConsecutiveAdjacent(result)
        /\ \E i, j \in 1..Len(result) :
              /\ j > i + 1
              /\ Manhattan(result[i], result[j]) = 1
              /\ Abs((result[i] \div GRID_WIDTH) - (result[j] \div GRID_WIDTH)) = 1

\* C7 witness: the fallback returned 36 cells on the 8x12 grid.
C7_Witness ==
    /\ ReturnedFromFallback
    /\ GRID_WIDTH = 8 /\ GRID_HEIGHT = 12 /\ PATH_LENGTH = 36
    /\ Len(result) = 36
    /\ ~NoTouch(result)

\* generate(width=4, height=4, length=16).
FullCoverage4x4 == GRID_WIDTH = 4 /\ GRID_HEIGHT = 4 /\ PATH_LENGTH = 16

\* C8: generate(4, 4, 16) terminates (it can step until it has returned, and
\* every step lowers the measure of the work left), and what it returns holds
\* exactly the cells 0..15, each once, with every consecutive pair adjacent.
C8_FullCoverage ==
    /\ [](FullCoverage4x4 /\ pc = "returned" =>
            /\ Len(result) = 16
            /\ Range(result) = 0..15
            /\ ConsecutiveAdjacent(result))
    /\ [](FullCoverage4x4 /\ pc # "returned" => ENABLED Next)
    /\ [][FullCoverage4x4 => Rank' < Rank /\ Rank' >= 0]_vars

\* C8 witness: generate(4, 4, 16) has returned all 16 cells.
C8_Witness ==
    /\ FullCoverage4x4
    /\ pc = "returned"
    /\ Cardinality(Range(result)) = 16

\* The length asked for exceeds the number of cells.
TooLong == PATH_LENGTH > GRID_WIDTH * GRID_HEIGHT

\* C9: when length > width*height the call does not loop forever (every
\* step lowers the measure of the work left and a step is possible until the
\* return), every search attempt returns null, and the call returns from the
\* fallback, which stops when the grid is exhausted: exactly width*height
\* cells, every cell of the grid once, fewer than length.
C9_UnderProduces ==
    /\ [][TooLong => Rank' < Rank]_vars
    /\ [](TooLong => pc = "returned" \/ ENABLED Next)
    /\ [](TooLong /\ pc = "check" => attemptResult = Null)
    /\ [](TooLong /\ pc = "returned" =>
            /\ ReturnedFromFallback
            /\ nullReturns = maxAttempts
            /\ Len(result) = GRID_WIDTH * GRID_HEIGHT
            /\ Len(result) < PATH_LENGTH
            /\ Range(result) = 0..(GRID_WIDTH * GRID_HEIGHT - 1))

\* C9 witness: generate(3, 3, 10) has returned the 9 cells of the grid from
\* the fallback after every attempt returned null.
C9_Witness ==
    /\ TooLong
    /\ GRID_WIDTH = 3
    /\ ReturnedFromFallback
    /\ nullReturns = maxAttempts
    /\ Len(result) = 9
    /\ PATH_LENGTH = 10

(***************************************************************************)
(* C10: the game controller.                                               *)
(***************************************************************************)

\* C10: in every reachable state gameState.userSelected has no duplicates and
\* holds only cells of gameState.pattern; and a handler calls winGame exactly
\* in the step that appends to userSelected the cell that makes it cover the
\* whole pattern, in whatever order the cells were selected.
C10_SelectedSubsetAndWin ==
    /\ [](/\ Distinct(gameState.userSelected)
          /\ Range(gameState.userSelected) \subseteq Range(gameState.pattern))
    /\ [][(called' = "winGame") <=>
            /\ Len(gameState.userSelected') = Len(gameState.userSelected) + 1
            /\ Range(gameState.userSelected') = Range(gameState.pattern')
            /\ gameState.pattern' = gameState.pattern]_vars

\* C10 witness: winGame has just been called for a pattern recalled in an
\* order that is not the path's order.
C10_Witness ==
    /\ called = "winGame"
    /\ Len(gameState.pattern) = PATH_LENGTH
    /\ Range(gameState.userSelected) = Range(gameState.pattern)
    /\ gameState.userSelected # gameState.pattern
    /\ gameState.userSelected[1] # gameState.pattern[1]
    /\ gameState.userSelected[1] # gameState.pattern[PATH_LENGTH]

(***************************************************************************)
(* C11..C20.                                                               *)
(***************************************************************************)

\* C11: startGame enters generatePath once (the call of line 309, made from
\* the idle page and from nowhere else), the call's return goes to the rest of
\* startGame, which stores the returned path; and no step of showPattern,
\* startRecall, handleTileClick (with winGame and loseGame), the loss
\* callback or the resize handlers changes gameState.pattern: it changes only
\* in startGame and in resetGame.
C11_PatternImmutable ==
    /\ [][StartGame => pc = "idle" /\ pc' = "generatePath" /\ attempts' = 0]_vars
    /\ [][pc # "generatePath" /\ pc' = "generatePath" /\ attempts' = 0
            => StartGame]_vars
    /\ [][pc = "returned" => StartGameFinish /\ gameState.pattern' = result]_vars
    /\ [][(ShowPattern \/ StartRecall \/ HandleTileClick \/ DisplayPatternTimeout
            \/ WindowResize \/ HandleResize)
            => gameState.pattern' = gameState.pattern]_vars
    /\ [][gameState.pattern' # gameState.pattern
            => StartGameFinish \/ ResetGame]_vars

\* C11 witness: a round with a peek has just been won, and the pattern is
\* still the full path startGame stored.
C11_Witness ==
    /\ called = "winGame"
    /\ gameState.peekCount > 0
    /\ Len(gameState.pattern) = PATH_LENGTH
    /\ Distinct(gameState.pattern)

\* winGame or loseGame has stopped the round's timer (lines 391, 404) and
\* neither resetGame nor startGame has run since (the start button is still
\* disabled, and no new timer has been started).
RoundTerminated ==
    /\ pc = "idle"
    /\ startBtnDisabled
    /\ gameState.timerInterval \notin intervals

\* C12: once winGame or loseGame has run, every step that is not resetGame or
\* startGame leaves mode IDLE, leaves userSelected and peekCount unchanged, and
\* calls neither winGame nor loseGame.
C12_RoundTerminated ==
    [][RoundTerminated /\ ~ResetGame /\ ~StartGame =>
          /\ gameState.mode' = "IDLE"
          /\ gameState.userSelected' = gameState.userSelected
          /\ gameState.peekCount' = gameState.peekCount
          /\ called' \notin {"winGame", "loseGame"}]_vars

DeadEnd ==
    /\ pc = "attempt"
    /\ SearchContinues
    /\ Len(getValidNeighbors(path[Len(path)], visited, path)) = 0

\* C14: whenever the search loop of attemptPathGeneration is about to run an
\* iteration, and when the attempt returns, visited is exactly the set of the
\* cells in path; a dead end with one cell in path makes the attempt return
\* null; a dead end with more cells removes the last cell from path and from
\* visited, adds exactly 1 to backtrackCount and changes nothing else.
C14_VisitedIsPath ==
    /\ [](pc \in {"attempt", "check"} => visited = Range(path) /\ Len(path) >= 1)
    /\ [][DeadEnd /\ Len(path) = 1 =>
            /\ pc' = "check"
            /\ attemptResult' = Null
            /\ path' = path /\ visited' = visited
            /\ backtrackCount' = backtrackCount]_vars
    /\ [][DeadEnd /\ Len(path) > 1 =>
            /\ Len(path') = Len(path) - 1
            /\ path' = SubSeq(path, 1, Len(path) - 1)
            /\ visited' = visited \ {path[Len(path)]}
            /\ backtrackCount' = backtrackCount + 1
            /\ UNCHANGED <<GRID_WIDTH, GRID_HEIGHT, PATH_LENGTH, pc, attempts, x, y,
                           direction, attemptResult, result, log, nullReturns>>]_vars

\* C14 witness: the search has backtracked twice and is again at a dead end
\* with more than one cell in path.
C14_Witness ==
    /\ DeadEnd
    /\ backtrackCount >= 2
    /\ Len(path) > 1
    /\ visited = Range(path)

\* The cells the no-touch rule allows after path p with visited set vis: on
\* the grid, at Manhattan distance 1 from the last cell of p, not in vis, and
\* at Manhattan distance 1 from no other cell of p.
AllowedNext(p, vis) ==
    {c \in 0..(GRID_WIDTH * GRID_HEIGHT - 1) :
        /\ Manhattan(c, p[Len(p)]) = 1
        /\ c \notin vis
        /\ \A i \in 1..(Len(p) - 1) : Manhattan(c, p[i]) # 1}

\* getValidNeighbors on (p, vis) returns the cells of AllowedNext(p, vis),
\* each once.
NeighborsExact(p, vis) ==
    LET neighbors == getValidNeighbors(p[Len(p)], vis, p)
    IN  /\ Range(neighbors) = AllowedNext(p, vis)
        /\ Len(neighbors) = Cardinality(AllowedNext(p, vis))

\* C15: in every state of the search loop, and for every simulated future
\* path the lookahead of chooseNextTile builds from it (the path with one
\* valid neighbour appended, that neighbour added to visited),
\* getValidNeighbors returns exactly the cells that are on the grid, next to
\* the last path cell, not visited, and next to no other path cell: also for
\* paths of fewer than 3 cells, where wouldCreateLoop tests nothing.
C15_ValidNeighborsExact ==
    pc = "attempt" =>
        /\ NeighborsExact(path, visited)
        /\ \A n \in Range(getValidNeighbors(path[Len(path)], visited, path)) :
              NeighborsExact(Append(path, n), visited \cup {n})

\* C15 witness: the search holds a 2-cell path (no test in wouldCreateLoop),
\* and on a simulated 3-cell future path a free grid neighbour of the last
\* cell is rejected because it touches the first cell.
C15_Witness ==
    /\ pc = "attempt"
    /\ Len(path) = 2
    /\ \E n \in Range(getValidNeighbors(path[2], visited, path)) :
          \E c \in 0..(GRID_WIDTH * GRID_HEIGHT - 1) :
              /\ Manhattan(c, n) = 1
              /\ c \notin visited \cup {n}
              /\ Manhattan(c, path[1]) = 1
              /\ c \notin Range(getValidNeighbors(n, visited \cup {n}, Append(path, n)))

\* The valid neighbours of the current last cell, as a set.
Candidates == Range(getValidNeighbors(path[Len(path)], visited, path))

\* A candidate's score: the number of cells allowed after it is added.
ScoreOf(c) == Cardinality(AllowedNext(Append(path, c), visited \cup {c}))

\* The candidates with score > 0, or all of them within 2 cells of the length.
Survivors ==
    IF PATH_LENGTH - Len(path) <= 2 THEN Candidates
    ELSE {c \in Candidates : ScoreOf(c) > 0}

\* The K = min(3, number of survivors) highest-scoring survivors: those with
\* fewer than K survivors scoring strictly higher.
TopSurvivors ==
    {c \in Survivors :
        Cardinality({d \in Survivors : ScoreOf(d) > ScoreOf(c)})
            < Min(3, Cardinality(Survivors))}

\* What C16 allows chooseNextTile to return.
ClaimedChoices ==
    IF Cardinality(Candidates) = 1 THEN Candidates ELSE TopSurvivors

\* The same, with the case of no survivor: any of the given neighbours.
AmendedChoices ==
    IF Cardinality(Candidates) >= 2 /\ Survivors = {} THEN Candidates
    ELSE ClaimedChoices

\* The loop is about to choose the next cell: it has valid neighbours.
Choosing == pc = "attempt" /\ SearchContinues /\ Candidates # {}

\* C16: chooseNextTile returns one of the valid neighbours it was given; the
\* single neighbour when there is one; with two or more, one of the
\* K = min(3, number of survivors) highest-scoring survivors, for every draw;
\* and that cell is what the search appends to the path.
C16_ChoosesTopSurvivor ==
    /\ [](Choosing =>
            \A k \in RandomUnit :
                LET neighbors == getValidNeighbors(path[Len(path)], visited, path)
                    next == chooseNextTile(neighbors, visited, path, k)
                IN  next \in Candidates /\ next \in ClaimedChoices)
    /\ [][Choosing => /\ path' = Append(path, path'[Len(path')])
                       /\ path'[Len(path')] \in ClaimedChoices]_vars

\* C16 as the code has it: as C16, and when two or more neighbours are given
\* and none survives (all score 0 with more than 2 cells to go),
\* chooseNextTile returns any one of the given neighbours.
C16_ChoosesTopSurvivorOrAny ==
    /\ [](Choosing =>
            \A k \in RandomUnit :
                LET neighbors == getValidNeighbors(path[Len(path)], visited, path)
                    next == chooseNextTile(neighbors, visited, path, k)
                IN  next \in Candidates /\ next \in AmendedChoices)
    /\ [][Choosing => /\ path' = Append(path, path'[Len(path')])
                       /\ path'[Len(path')] \in AmendedChoices]_vars

\* C16 witness: the search has just appended a cell that was one of two or
\* more candidates none of which survived, with more than 2 cells to go.
C16_Witness ==
    /\ pc = "attempt"
    /\ Len(path) >= 2
    /\ LET p == SubSeq(path, 1, Len(path) - 1)
           vis == visited \ {path[Len(path)]}
           given == Range(getValidNeighbors(p[Len(p)], vis, p))
       IN  /\ Cardinality(given) >= 2
           /\ PATH_LENGTH - Len(p) > 2
           /\ path[Len(path)] \in given
           /\ \A c \in given : AllowedNext(Append(p, c), vis \cup {c}) = {}

\* C17: in one call of generatePath the main loop of attemptPathGeneration
\* runs, over all attempts, at most maxAttempts * maxBacktracks iterations
\* (each iteration evaluates the valid neighbours of the last cell once).
C17_IterationsBound ==
    iterations <= maxAttempts * maxBacktracks

\* The most iterations one attempt can make: every backtrack undoes a push,
\* and the pushes that are not undone make the path, of at most PATH_LENGTH
\* cells, the first of which is not pushed by the loop.
IterationsPerAttempt == 2 * maxBacktracks + PATH_LENGTH - 1

\* C17 as the code has it: an attempt that has made b backtracks and holds n
\* cells has run 2*b + n - 1 iterations (one more when it returns null from a
\* dead end at its start cell), so an attempt runs at most
\* 2 * maxBacktracks + PATH_LENGTH - 1 iterations and a call at most
\* maxAttempts times that.
C17_IterationsBoundWithPushes ==
    /\ pc = "attempt" =>
          iterations <= attempts * IterationsPerAttempt
                        + 2 * backtrackCount + Len(path) - 1
    /\ PATH_LENGTH >= 1 => iterations <= maxAttempts * IterationsPerAttempt

\* C17 witness: a call has used up its attempts and has run more than
\* maxAttempts * maxBacktracks iterations, every attempt having run more than
\* maxBacktracks.
C17_Witness ==
    /\ ReturnedFromFallback
    /\ attempts = maxAttempts
    /\ iterations >= maxAttempts * 2 * maxBacktracks
    /\ iterations > maxAttempts * maxBacktracks

\* The cells that are not on the outer ring of the grid.
InteriorCells ==
    {c \in 0..(GRID_WIDTH * GRID_HEIGHT - 1) :
        /\ c % GRID_WIDTH \in 1..(GRID_WIDTH - 2)
        /\ c \div GRID_WIDTH \in 1..(GRID_HEIGHT - 2)}

\* C18: on a grid of at least 3x3 every search attempt begins with
\* path = [start] and visited = {start} for an interior cell start (x in
\* 1..width-2, y in 1..height-2), and every interior cell is the start for
\* some pair of draws.
C18_InteriorStart ==
    /\ [][(GRID_WIDTH >= 3 /\ GRID_HEIGHT >= 3
            /\ pc = "generatePath" /\ pc' = "attempt") =>
            /\ Len(path') = 1
            /\ path'[1] \in InteriorCells
            /\ visited' = {path'[1]}]_vars
    /\ []((GRID_WIDTH >= 3 /\ GRID_HEIGHT >= 3 /\ pc = "generatePath") =>
            \A c \in InteriorCells :
                \E kx \in RandomUnit, ky \in RandomUnit : startIndexOf(kx, ky) = c)

\* C18 witness: the second attempt on the 5x4 grid has just started at the
\* interior cell (3, 2), the one farthest from the first interior cell.
C18_Witness ==
    /\ pc = "attempt"
    /\ attempts = 1
    /\ GRID_WIDTH = 5 /\ GRID_HEIGHT = 4
    /\ path = <<13>>
    /\ visited = {13}
    /\ backtrackCount = 0

\* What a press on tile index may do to the game state.
TilePressFrame(index) ==
    /\ gameState.pattern' = gameState.pattern
    /\ gameState.peekCount' = gameState.peekCount
    /\ IF \/ gameState.mode # "RECALL"
          \/ tilesDisabled
          \/ index \in Range(gameState.userSelected)
       THEN /\ gameState.mode' = gameState.mode
            /\ gameState.userSelected' = gameState.userSelected
       ELSE IF index \in Range(gameState.pattern)
       THEN /\ gameState.userSelected' = Append(gameState.userSelected, index)
            /\ gameState.mode' =
                  IF Range(gameState.userSelected') = Range(gameState.pattern)
                  THEN "IDLE" ELSE "RECALL"
       ELSE /\ gameState.mode' = "IDLE"
            /\ tilesDisabled'
            /\ gameState.userSelected' = gameState.userSelected

\* The step changes something no tile press changes, so it is a step of
\* another handler or of the generator.
NotATilePress ==
    \/ pc # "idle"
    \/ pc' # "idle"
    \/ patternShown' # patternShown
    \/ startBtnDisabled' # startBtnDisabled
    \/ mobile' # mobile
    \/ timers.handleResize' # timers.handleResize

\* C19: a press on tile index changes mode, pattern, userSelected or
\* peekCount only when mode is RECALL, the tiles are enabled and index is not
\* in userSelected; then, if index is in the pattern, it is appended to
\* userSelected and mode stays RECALL unless userSelected now covers the
\* pattern; if index is not in the pattern, mode becomes IDLE, the tiles are
\* disabled and userSelected is unchanged.  pattern and peekCount never change.
\* As a property of steps: every step either is no tile press, or for each
\* tile it is not a press on that tile or it satisfies this frame.
C19_TilePressFrame ==
    [][NotATilePress
       \/ \A index \in 0..(GRID_WIDTH * GRID_HEIGHT - 1) :
             TilePressFrame(index) \/ ~TilePress(index)]_vars

\* C19 witness: a press on a tile outside the pattern has just ended, as a
\* loss, a round in which two tiles of the pattern had been selected.
C19_Witness ==
    /\ called = "loseGame"
    /\ gameState.mode = "IDLE"
    /\ tilesDisabled
    /\ Len(gameState.userSelected) = 2

\* C20: peekCount counts the showPattern calls made in RECALL mode since the
\* last startGame or resetGame: it is 0 on the fresh page, startGame and
\* resetGame set it to 0, showPattern adds exactly 1 when mode is RECALL and
\* 0 otherwise, and nothing else changes it; every showPattern sets mode to
\* MEMORIZE and empties userSelected.
C20_PeekCount ==
    /\ gameState.peekCount = 0
    /\ [][ShowPattern =>
            /\ gameState.peekCount' =
                  gameState.peekCount + (IF gameState.mode = "RECALL" THEN 1 ELSE 0)
            /\ gameState.mode' = "MEMORIZE"
            /\ gameState.userSelected' = <<>>]_vars
    /\ [][StartGameFinish \/ ResetGame => gameState.peekCount' = 0]_vars
    /\ [][gameState.peekCount' # gameState.peekCount =>
            ShowPattern \/ StartGameFinish \/ ResetGame]_vars

\* C20 witness: the pattern is shown again after the second peek of a round.
C20_Witness ==
    /\ gameState.peekCount = 2
    /\ gameState.mode = "MEMORIZE"
    /\ gameState.userSelected = <<>>
    /\ patternShown
    /\ startBtnDisabled

(***************************************************************************)
(* C21..C25.                                                               *)
(***************************************************************************)

\* C21: within one search attempt the path is never again a path the attempt
\* has backtracked from: a cell popped from a prefix is not pushed onto that
\* same prefix again.
C21_NoReentry ==
    pc = "attempt" => path \notin abandoned.paths

\* C21 as the code has it: a backtrack deletes the popped cell from visited
\* and the attempt keeps no record of its dead ends, so the popped cell can be
\* pushed onto the same prefix again; a path that is entered again is a dead
\* end again, of more than one cell, so it costs another counted backtrack,
\* and an attempt abandons at most maxBacktracks paths, repeats included.
C21_ReentryCostsBacktrack ==
    pc \in {"attempt", "check"} =>
        /\ Cardinality(abandoned.paths) <= backtrackCount
        /\ backtrackCount <= maxBacktracks
        /\ path \in abandoned.paths =>
              /\ Len(path) > 1
              /\ Len(path) < PATH_LENGTH
              /\ Len(getValidNeighbors(path[Len(path)], visited, path)) = 0

\* C21 witness: on a grid and length of the contract the search is back on a
\* path it has backtracked from, with backtracks left to leave it again.
C21_Witness ==
    /\ ValidConfig
    /\ pc = "attempt"
    /\ path \in abandoned.paths
    /\ backtrackCount < maxBacktracks
    /\ Cardinality(abandoned.paths) < backtrackCount

\* C22: while a generated pattern is held (gameState.pattern is non-empty and
\* stays the same) GRID_WIDTH and GRID_HEIGHT do not change, so between
\* handlers the held pattern is a path of in-grid cells with every consecutive
\* pair adjacent on the current grid.
C22_DimensionsMatchPattern ==
    /\ [][(gameState.pattern # <<>> /\ gameState.pattern' = gameState.pattern) =>
            GRID_WIDTH' = GRID_WIDTH /\ GRID_HEIGHT' = GRID_HEIGHT]_vars
    /\ [](pc = "idle" /\ gameState.pattern # <<>> =>
            InGrid(gameState.pattern) /\ ConsecutiveAdjacent(gameState.pattern))

\* C23: the pattern's tiles are never shown green while mode is RECALL, and
\* the callback loseGame scheduled (displayPattern after 300 ms) fires only
\* while mode is IDLE, whatever the player does with the peek and recall
\* buttons in between.
C23_NoRevealInRecall ==
    /\ [](gameState.mode = "RECALL" => ~patternShown)
    /\ [][DisplayPatternTimeout => gameState.mode = "IDLE"]_vars

\* C24: in every state at most one interval timer is active, and one is
\* active exactly when mode is MEMORIZE or RECALL.
C24_OneTimerWhilePlaying ==
    /\ Cardinality(intervals) <= 1
    /\ (intervals # {}) <=> (gameState.mode \in {"MEMORIZE", "RECALL"})

\* The work an attempt of the variant has left: two for every cell not yet
\* visited (its push and its pop), one for every cell on the path (its pop).
VariantRank ==
    IF pc = "check" THEN 0
    ELSE 1 + 2 * (GRID_WIDTH * GRID_HEIGHT - Cardinality(visited)) + Len(path)

\* The cells the variant's attempt has pushed, the start cell included.
VariantPushes == 1 + iterations - backtrackCount

\* C25: a call of attemptPathGeneration of src/game.js terminates (every
\* step lowers a natural-number measure and a step is possible until the
\* return); visited only grows and holds the path; a pushed cell was not
\* visited, so the pushes number at most width*height and the pops no more
\* than the pushes; and the call returns null or a path of exactly
\* PATH_LENGTH distinct grid cells, consecutive cells adjacent, no two others
\* touching.
C25_VariantTerminates ==
    /\ [](VariantRank \in Nat)
    /\ [][VariantRank' < VariantRank]_vars
    /\ [](pc = "check" \/ ENABLED VariantNext)
    /\ [][pc = "attempt" => visited \subseteq visited']_vars
    /\ [][pc = "attempt" /\ Len(path') > Len(path) =>
            path'[Len(path')] \notin visited]_vars
    /\ [](pc = "attempt" =>
            /\ Range(path) \subseteq visited
            /\ visited \subseteq 0..(GRID_WIDTH * GRID_HEIGHT - 1)
            /\ Len(path) = VariantPushes - backtrackCount
            /\ Cardinality(visited) = VariantPushes
            /\ VariantPushes <= GRID_WIDTH * GRID_HEIGHT
            /\ backtrackCount <= VariantPushes)
    /\ [](pc = "check" =>
            \/ attemptResult = Null
            \/ /\ Len(attemptResult.value) = PATH_LENGTH
               /\ Distinct(attemptResult.value)
               /\ InGrid(attemptResult.value)
               /\ ConsecutiveAdjacent(attemptResult.value)
               /\ NoTouch(attemptResult.value))

\* C25 witness: the variant's attempt has returned a full path after popping
\* two cells, which are still in visited.
C25_Witness ==
    /\ pc = "check"
    /\ attemptResult # Null
    /\ Len(attemptResult.value) = PATH_LENGTH
    /\ backtrackCount >= 2
    /\ Cardinality(visited) = PATH_LENGTH + backtrackCount
    /\ Range(attemptResult.value) # visited

====
